---------------------------- MODULE Spec2Model ----------------------------
(***************************************************************************)
(* Agent_Bot: conversation store, agent orchestration, tools.              *)
(*                                                                         *)
(* SpecStore   services/conversation.py, ConversationService on its own.   *)
(* SpecAgent   routes/chatAgent.py + services/agent_core.py + the tools of *)
(*             services/agent_tools.py: chat turns interleaving at their   *)
(*             await points on one event loop.                             *)
(* SpecTurn    the same code serving one request at a time, on every input.*)
(* SpecLegacy  main.py + agent_core.py + tools.py + service_clients.py.    *)
(***************************************************************************)
EXTENDS Integers, Sequences, FiniteSets, TLC

VARIABLES
    conversations,   \* ConversationService.conversations: session_id -> session
    now,             \* the clock read by datetime.utcnow(), ticking at each write
    added,           \* history variable: per session id, every message add_message accepted
    ret,             \* the last ConversationService call and what it returned
    runtime_token,   \* services/agent_tools.py: the module-level runtime_token
    turn,            \* the chat requests in flight on the event loop, one per slot
    requests,        \* chat requests received so far
    tools_runtime_token,  \* tools.py: the module-level runtime_token
    core_runtime_token,   \* agent_core.py: its binding of the imported runtime_token
    SESSION_STORE,   \* session_manager.py SESSION_STORE
    lturn,           \* the request main.py chat_endpoint is serving
    call             \* the last call of a retrieval, embedding or document function, with its result

storeVars == <<conversations, now, added, ret>>
agentVars == <<runtime_token, turn>>
legacyVars == <<tools_runtime_token, core_runtime_token, SESSION_STORE, lturn>>
vars == <<storeVars, agentVars, requests, legacyVars, call>>

-----------------------------------------------------------------------------
(* Bounds *)

\* Writes (create_session, accepted add_message) explored by SpecStore.
MaxOps == 12

\* Largest explicit limit passed to get_history in SpecStore.
MaxLimit == 3

\* Chat requests explored by SpecAgent, and by SpecTurn.
MaxRequests == 2
MaxSoloRequests == 1
\* Chat requests served one after the other in SpecChat.
MaxChatRequests == 2
MaxLegacyRequests == 2

\* Passages the retrieval step may report.
MaxSources == 1

\* Entries in a downstream JSON list.
MaxItems == 2

-----------------------------------------------------------------------------
(* Program constants *)

\* ConversationService.__init__(max_history_length = 10)
max_history_length == 10

None == "None"
Roles == {"user", "assistant"}

\* Session ids: uuid4 strings.  "s0" is an id create_session never hands out.
SessionIds == {"s1", "s2"}
UnknownSid == "s0"
StoreSessionIds == {"s1"}

-----------------------------------------------------------------------------
(* Python list helpers *)

Max2(a, b) == IF a >= b THEN a ELSE b
Min2(a, b) == IF a <= b THEN a ELSE b

\* xs[-n:] for n >= 0.  -0 is 0, so xs[-0:] is the whole list.
SliceLast(xs, n) ==
    IF n = 0 THEN xs
    ELSE SubSeq(xs, Max2(1, Len(xs) - n + 1), Len(xs))

\* The last n elements of xs (all of xs when it is shorter).
LastN(xs, n) == SubSeq(xs, Max2(1, Len(xs) - n + 1), Len(xs))

-----------------------------------------------------------------------------
(* Python str helpers: a string is the sequence of its characters *)

Lower(c) ==
    CASE c = "A" -> "a"
      [] c = "B" -> "b"
      [] c = "C" -> "c"
      [] c = "D" -> "d"
      [] c = "E" -> "e"
      [] c = "F" -> "f"
      [] c = "G" -> "g"
      [] c = "H" -> "h"
      [] c = "I" -> "i"
      [] c = "J" -> "j"
      [] c = "K" -> "k"
      [] c = "L" -> "l"
      [] c = "M" -> "m"
      [] c = "N" -> "n"
      [] c = "O" -> "o"
      [] c = "P" -> "p"
      [] c = "Q" -> "q"
      [] c = "R" -> "r"
      [] c = "S" -> "s"
      [] c = "T" -> "t"
      [] c = "U" -> "u"
      [] c = "V" -> "v"
      [] c = "W" -> "w"
      [] c = "X" -> "x"
      [] c = "Y" -> "y"
      [] c = "Z" -> "z"
      [] OTHER -> c

\* s.lower()
LowerStr(s) == [i \in 1..Len(s) |-> Lower(s[i])]

\* str.isspace for the characters the model uses.
IsSpace(c) == c \in {" ", "\n", "\t"}

RECURSIVE LStrip(_)
LStrip(s) == IF s # <<>> /\ IsSpace(Head(s)) THEN LStrip(Tail(s)) ELSE s

RECURSIVE RStrip(_)
RStrip(s) ==
    IF s # <<>> /\ IsSpace(s[Len(s)]) THEN RStrip(SubSeq(s, 1, Len(s) - 1)) ELSE s

\* s.strip()
Strip(s) == RStrip(LStrip(s))

\* sub in s
Contains(sub, s) ==
    \E i \in 1..(Len(s) - Len(sub) + 1) : SubSeq(s, i, i + Len(sub) - 1) = sub

\* any(k in s for k in keywords)
AnyIn(keywords, s) == \E j \in 1..Len(keywords) : Contains(keywords[j], s)

\* The text of the strings the model names.
Chars(n) ==
    CASE n = "q_president" -> <<"W","h","o"," ","w","a","s"," ","t","h","e"," ","f","i","r","s","t"," ","p","r","e","s","i","d","e","n","t","?">>
      [] n = "q_hi" -> <<"H","i">>
      [] n = "q_oil" -> <<"O","i","l"," ","c","h","a","n","g","e">>
      [] n = "q_machine" -> <<"i","s"," ","a"," ","m","a","c","h","i","n","e"," ","a","l","i","v","e","?">>
      [] n = "check_appointment_slots_tool" -> <<"c","h","e","c","k","_","a","p","p","o","i","n","t","m","e","n","t","_","s","l","o","t","s","_","t","o","o","l">>
      [] n = "get_user_active_services_tool" -> <<"g","e","t","_","u","s","e","r","_","a","c","t","i","v","e","_","s","e","r","v","i","c","e","s","_","t","o","o","l">>
      [] n = "get_last_work_log_tool" -> <<"g","e","t","_","l","a","s","t","_","w","o","r","k","_","l","o","g","_","t","o","o","l">>
      [] n = "_Exception" -> <<"_","E","x","c","e","p","t","i","o","n">>

Queries == {"q_president", "q_hi", "q_oil"}

-----------------------------------------------------------------------------
(* services/agent_core.py: the scope pre-filter's keyword lists *)

greeting_keywords ==
    << <<"h","i">>,
       <<"h","e","l","l","o">>,
       <<"h","e","y">>,
       <<"g","r","e","e","t","i","n","g","s">>,
       <<"g","o","o","d"," ","m","o","r","n","i","n","g">>,
       <<"g","o","o","d"," ","a","f","t","e","r","n","o","o","n">>,
       <<"g","o","o","d"," ","e","v","e","n","i","n","g">>,
       <<"h","e","l","p">>,
       <<"t","h","a","n","k","s">>,
       <<"t","h","a","n","k"," ","y","o","u">>,
       <<"b","y","e">>,
       <<"g","o","o","d","b","y","e">> >>

automotive_keywords ==
    << <<"c","a","r">>,
       <<"v","e","h","i","c","l","e">>,
       <<"a","u","t","o">>,
       <<"e","n","g","i","n","e">>,
       <<"t","i","r","e">>,
       <<"b","r","a","k","e">>,
       <<"o","i","l">>,
       <<"r","e","p","a","i","r">>,
       <<"s","e","r","v","i","c","e">>,
       <<"m","a","i","n","t","e","n","a","n","c","e">>,
       <<"a","p","p","o","i","n","t","m","e","n","t">>,
       <<"m","e","c","h","a","n","i","c">>,
       <<"t","r","a","n","s","m","i","s","s","i","o","n">>,
       <<"b","a","t","t","e","r","y">>,
       <<"d","i","a","g","n","o","s","t","i","c">>,
       <<"w","a","r","r","a","n","t","y">>,
       <<"p","a","r","t">>,
       <<"l","a","b","o","r">>,
       <<"w","h","e","e","l">>,
       <<"s","u","s","p","e","n","s","i","o","n">>,
       <<"s","c","h","e","d","u","l","e">>,
       <<"b","o","o","k","i","n","g">>,
       <<"s","t","a","t","u","s">>,
       <<"p","r","i","c","e">>,
       <<"c","o","s","t">>,
       <<"e","s","t","i","m","a","t","e">> >>

-----------------------------------------------------------------------------
(* services/conversation.py *)

NewSession(sid, user_id, t) ==
    [session_id |-> sid, user_id |-> user_id, messages |-> <<>>,
     created_at |-> t, last_activity |-> t]

\* create_session: a fresh id, an empty history.
CreateSessionStore(store, sid, user_id, t) ==
    [s \in DOMAIN store \cup {sid} |->
        IF s = sid THEN NewSession(sid, user_id, t) ELSE store[s]]

MkMessage(role, content, t) == [role |-> role, content |-> content, timestamp |-> t]

\* Trim keeping the oldest messages.
Trim_KeepOldest(msgs) ==
    IF Len(msgs) > max_history_length
    THEN SubSeq(msgs, 1, max_history_length)
    ELSE msgs

\* Trim with its comparison off by one.
Trim_OffByOne(msgs) ==
    IF Len(msgs) > max_history_length + 1
    THEN SliceLast(msgs, max_history_length)
    ELSE msgs

\* add_message lines 53-54: the overflow trim.

Trim(msgs) ==
    IF Len(msgs) > max_history_length
    THEN SliceLast(msgs, max_history_length)
    ELSE msgs

\* add_message replacing the history by the new message.
AddMessageStore_Overwrite(store, sid, msg, t) ==
    [store EXCEPT ![sid] =
        [@ EXCEPT !.messages = <<msg>>,
                  !.last_activity = t]]

\* add_message on a known session: append, touch last_activity, trim.
AddMessageStore(store, sid, msg, t) ==
    [store EXCEPT ![sid] =
        [@ EXCEPT !.messages = Trim(Append(@, msg)),
                  !.last_activity = t]]

\* add_message's return value.
AddMessageOk(store, sid) == sid \in DOMAIN store

\* add_message opening a session for an id it does not know.
AddMessageCall_Upsert(store, sid, msg, t) ==
    IF ~AddMessageOk(store, sid)
    THEN [ok |-> FALSE,
          store |-> AddMessageStore(CreateSessionStore(store, sid, None, t), sid, msg, t)]
    ELSE [ok |-> TRUE, store |-> AddMessageStore(store, sid, msg, t)]

\* add_message, lines 38-56: the value returned and the store it leaves.
AddMessageCall(store, sid, msg, t) ==
    IF ~AddMessageOk(store, sid)
    THEN [ok |-> FALSE, store |-> store]
    ELSE [ok |-> TRUE, store |-> AddMessageStore(store, sid, msg, t)]

\* Optional[int]: None is <<>>, the integer n is <<n>>.
NoLimit == <<>>
Limit(n) == <<n>>

\* get_history(session_id, limit): "if limit:" is false for None and for 0.
get_history(store, sid, limit) ==
    IF sid \notin DOMAIN store THEN <<>>
    ELSE IF limit = NoLimit \/ limit = Limit(0) THEN store[sid].messages
    ELSE SliceLast(store[sid].messages, limit[1])

-----------------------------------------------------------------------------
(* services/microservice_client.py *)

\* What _make_get_request returns: the error dict of its except branches,
\* or response.json(), a JSON object or a JSON list.  An object carries
\* `items` under the key its caller looks up ('available_slots', 'logs').
ErrorResponse == [kind |-> "error", items |-> <<>>]

SeqsUpTo(S, n) == UNION {[1..k -> S] : k \in 0..n}

SlotItems == {[has_time |-> TRUE, time |-> "09:00"], [has_time |-> FALSE, time |-> ""]}
ServiceItems == {[status |-> "IN_PROGRESS"], [status |-> "COMPLETED"]}
LogItems == {[createdAt |-> 1], [createdAt |-> 2]}

Responses(Items) ==
    {ErrorResponse} \cup
    {[kind |-> k, items |-> xs] : k \in {"dict", "list"}, xs \in SeqsUpTo(Items, MaxItems)}

\* A value returned, or an exception raised.
Returned(v) == [raised |-> FALSE, value |-> v]
Raised(e) == [raised |-> TRUE, value |-> e]

\* data.get("error") / result.get("error"): a list has no attribute get.
HasGet(data) == data.kind # "list"

\* get_appointment_slots: the data as received.
get_appointment_slots(data) == data

ActiveStatuses == {"IN_PROGRESS", "REQUESTED", "APPROVED"}
IsActive(item) == item.status \in ActiveStatuses

\* get_active_services: the active entries of a list, [] for anything else.
get_active_services(data) ==
    IF data.kind = "list" THEN SelectSeq(data.items, IsActive) ELSE <<>>

\* _parse_logs_response
parse_logs_response(data) ==
    IF data.kind = "list" THEN data.items
    ELSE IF data.kind = "dict" THEN data.items
    ELSE <<>>

\* get_time_logs_for_service: data.get("error") comes before the parse.
get_time_logs_for_service(data) ==
    IF ~HasGet(data) THEN Raised("AttributeError")
    ELSE IF data.kind = "error" THEN Returned(<<>>)
    ELSE Returned(parse_logs_response(data))

-----------------------------------------------------------------------------
(* services/agent_tools.py *)

AppointmentTool == "check_appointment_slots_tool"
ActiveServicesTool == "get_user_active_services_tool"
WorkLogTool == "get_last_work_log_tool"
all_tools == {AppointmentTool, ActiveServicesTool, WorkLogTool}

\* The text a tool returns, with the data it formats into it.
ToolText(text, data) == Returned([text |-> text, data |-> data])

HasTime(s) == s.has_time
SlotTime(s) == s.time

check_appointment_slots_tool(data) ==
    LET result == get_appointment_slots(data) IN
    IF ~HasGet(result) THEN Raised("AttributeError")
    ELSE IF result.kind = "error"
    THEN ToolText("Error: Could not check slots due to service error", <<>>)
    ELSE LET slots == result.items
             slot_times == [i \in 1..Len(SelectSeq(slots, HasTime)) |->
                               SlotTime(SelectSeq(slots, HasTime)[i])]
         IN IF slots # <<>> /\ slot_times # <<>>
            THEN ToolText("Available slots", slot_times)
            ELSE ToolText("No available slots found", <<>>)

get_user_active_services_tool(data) ==
    LET active_items == get_active_services(data) IN
    IF active_items = <<>>
    THEN ToolText("The user currently has no active services or modification projects.", <<>>)
    ELSE ToolText("The user has the following items IN_PROGRESS", active_items)

\* logs.sort(key=createdAt)[0], the sort not reversed: the first of the
\* oldest logs.
MostRecent_Ascending(logs) ==
    logs[CHOOSE i \in 1..Len(logs) :
            /\ \A j \in 1..Len(logs) : logs[j].createdAt >= logs[i].createdAt
            /\ \A j \in 1..(i - 1) : logs[j].createdAt > logs[i].createdAt]

\* logs.sort(key=createdAt, reverse=True)[0]: the first log of the list,
\* in its order, that no other log is newer than.
MostRecent(logs) ==
    logs[CHOOSE i \in 1..Len(logs) :
            /\ \A j \in 1..Len(logs) : logs[j].createdAt <= logs[i].createdAt
            /\ \A j \in 1..(i - 1) : logs[j].createdAt < logs[i].createdAt]

get_last_work_log_tool(data) ==
    LET logs == get_time_logs_for_service(data) IN
    IF logs.raised THEN logs
    ELSE IF logs.value # <<>>
    THEN ToolText("log", <<MostRecent(logs.value)>>)
    ELSE ToolText("No time logs found for service/project ID", <<>>)

\* The downstream answers a tool's call can get.
ToolResponses(tool) ==
    CASE tool = AppointmentTool -> Responses(SlotItems)
      [] tool = ActiveServicesTool -> Responses(ServiceItems)
      [] tool = WorkLogTool -> Responses(LogItems)

RunTool(tool, data) ==
    CASE tool = AppointmentTool -> check_appointment_slots_tool(data)
      [] tool = ActiveServicesTool -> get_user_active_services_tool(data)
      [] tool = WorkLogTool -> get_last_work_log_tool(data)

-----------------------------------------------------------------------------
(* services/embedding.py *)

\* Largest native and target embedding dimension explored.
MaxDim == 3

\* EmbeddingService after __init__: model is None when the load failed, and
\* then actual_dimension was never set (0 stands for the missing attribute).
EmbeddingServices ==
    {[loaded |-> TRUE, actual_dimension |-> a, dimension |-> d] : a \in 1..MaxDim, d \in 1..MaxDim}
    \cup {[loaded |-> FALSE, actual_dimension |-> 0, dimension |-> d] : d \in 1..MaxDim}

\* is_available
embedding_is_available(svc) == svc.loaded

\* model.encode(text): a vector of the model's native dimension, no
\* component of it zero; seed tells the texts apart.
Encode(native, seed) == [i \in 1..native |-> 10 * seed + i]

\* What model.encode can do: return, or raise.
EncodeOutcomes == {"ok", "raise"}

\* _adjust_dimension padding with a vector of the target length.
adjust_dimension_PadFull(svc, embedding) ==
    IF svc.actual_dimension = svc.dimension THEN embedding
    ELSE IF svc.actual_dimension < svc.dimension
    THEN embedding \o [i \in 1..svc.dimension |-> 0]
    ELSE SubSeq(embedding, 1, svc.dimension)

\* _adjust_dimension
adjust_dimension(svc, embedding) ==
    IF svc.actual_dimension = svc.dimension THEN embedding
    ELSE IF svc.actual_dimension < svc.dimension
    THEN embedding \o [i \in 1..(svc.dimension - svc.actual_dimension) |-> 0]
    ELSE SubSeq(embedding, 1, svc.dimension)

\* embed_text: [] when the model is missing or encode raises.
embed_text(svc, enc, seed) ==
    IF ~embedding_is_available(svc) THEN <<>>
    ELSE IF enc = "raise" THEN <<>>
    ELSE adjust_dimension(svc, Encode(svc.actual_dimension, seed))

\* embed_texts: one adjusted vector per text, [] on failure.
embed_texts(svc, enc, seeds) ==
    IF ~embedding_is_available(svc) THEN <<>>
    ELSE IF enc = "raise" THEN <<>>
    ELSE [i \in 1..Len(seeds) |-> adjust_dimension(svc, Encode(svc.actual_dimension, seeds[i]))]

-----------------------------------------------------------------------------
(* services/vector.py *)

\* What index.query can do: return its matches, or raise.
QueryOutcomes == {"ok", "raise"}

\* query_similar: the matches as dicts, [] when there is no index or the
\* query raises.
query_similar(index_available, outcome, matches) ==
    IF ~index_available THEN <<>>
    ELSE IF outcome = "raise" THEN <<>>
    ELSE [i \in 1..Len(matches) |->
            [id |-> matches[i].id, score |-> matches[i].score,
             metadata |-> matches[i].metadata]]

\* Line 139.
batch_size == 100

\* What the calls of index.upsert can do: all store their batch (0), or the
\* call number fail_at raises, the calls before it having stored theirs.
NoUpsertFailure == 0
UpsertOutcomes == {NoUpsertFailure, 1, 2}

\* Lines 130-137: zip(ids, vectors, metadata), as long as the shortest list.
ZipRecords(ids, vectors, metadata) ==
    LET n == CHOOSE k \in {Len(ids), Len(vectors), Len(metadata)} :
                 k <= Len(ids) /\ k <= Len(vectors) /\ k <= Len(metadata)
    IN [i \in 1..n |-> [id |-> ids[i], values |-> vectors[i], metadata |-> metadata[i]]]

\* The batches cut one record too long.
RECURSIVE Batches_OneMore(_)
Batches_OneMore(vectors_data) ==
    IF vectors_data = <<>> THEN <<>>
    ELSE IF Len(vectors_data) <= batch_size + 1 THEN <<vectors_data>>
    ELSE <<SubSeq(vectors_data, 1, batch_size + 1)>>
            \o Batches_OneMore(SubSeq(vectors_data, batch_size + 2, Len(vectors_data)))

\* Lines 140-141: vectors_data[i:i + batch_size] for i = 0, batch_size, ...
RECURSIVE Batches(_)
Batches(vectors_data) ==
    IF vectors_data = <<>> THEN <<>>
    ELSE IF Len(vectors_data) <= batch_size THEN <<vectors_data>>
    ELSE <<SubSeq(vectors_data, 1, batch_size)>>
            \o Batches(SubSeq(vectors_data, batch_size + 1, Len(vectors_data)))

RECURSIVE Flatten(_)
Flatten(seqs) == IF seqs = <<>> THEN <<>> ELSE Head(seqs) \o Flatten(Tail(seqs))

\* upsert_vectors: whether it returned True, the batches index.upsert
\* stored, in the order of the calls, and the records the index holds from
\* them.
upsert_vectors(index_available, fail_at, vectors_data) ==
    IF ~index_available THEN [ok |-> FALSE, sent |-> <<>>, stored |-> <<>>]
    ELSE LET batches == Batches(vectors_data)
             sent == IF fail_at \in 1..Len(batches) THEN SubSeq(batches, 1, fail_at - 1)
                     ELSE batches
         IN [ok |-> fail_at \notin 1..Len(batches), sent |-> sent, stored |-> Flatten(sent)]

-----------------------------------------------------------------------------
(* services/rag.py.  Scores are counted in tenths: 3 is the score 0.3. *)

default_min_score == 3
default_max_context_length == 2000

\* RAGService.is_available
rag_is_available(env) == embedding_is_available(env.emb) /\ env.index

\* Lines 82-90: the document built from one match.
MkDoc(result) ==
    [text |-> result.metadata.text, score |-> result.score,
     title |-> result.metadata.title, doc_id |-> result.id]

\* The threshold test made strict.
RECURSIVE RelevantDocs_Strict(_, _)
RelevantDocs_Strict(results, min_score) ==
    IF results = <<>> THEN <<>>
    ELSE IF Head(results).score > min_score
    THEN <<MkDoc(Head(results))>> \o RelevantDocs_Strict(Tail(results), min_score)
    ELSE RelevantDocs_Strict(Tail(results), min_score)

\* Lines 79-91: the results at or above min_score, in their order.
RECURSIVE RelevantDocs(_, _)
RelevantDocs(results, min_score) ==
    IF results = <<>> THEN <<>>
    ELSE IF Head(results).score >= min_score
    THEN <<MkDoc(Head(results))>> \o RelevantDocs(Tail(results), min_score)
    ELSE RelevantDocs(Tail(results), min_score)

\* retrieve_relevant_context asking the index before it has the embedding.
retrieve_relevant_context_QueryFirst(env, min_score) ==
    IF ~rag_is_available(env) THEN [docs |-> <<>>, calls |-> <<>>]
    ELSE LET results == query_similar(env.index, env.query, env.matches)
             query_embedding == embed_text(env.emb, env.enc, 1)
         IN IF query_embedding = <<>>
            THEN [docs |-> <<>>, calls |-> <<"query_similar", "embed_text">>]
            ELSE [docs |-> RelevantDocs(results, min_score),
                  calls |-> <<"query_similar", "embed_text">>]

\* retrieve_relevant_context: the documents it returns and the calls it
\* made to the embedding model and the index, in their order.
retrieve_relevant_context(env, min_score) ==
    IF ~rag_is_available(env) THEN [docs |-> <<>>, calls |-> <<>>]
    ELSE LET query_embedding == embed_text(env.emb, env.enc, 1) IN
         IF query_embedding = <<>>
         THEN [docs |-> <<>>, calls |-> <<"embed_text">>]
         ELSE LET results == query_similar(env.index, env.query, env.matches) IN
              [docs |-> RelevantDocs(results, min_score),
               calls |-> <<"embed_text", "query_similar">>]

\* str(i)
Digit(d) ==
    CASE d = 0 -> "0" [] d = 1 -> "1" [] d = 2 -> "2" [] d = 3 -> "3" [] d = 4 -> "4"
      [] d = 5 -> "5" [] d = 6 -> "6" [] d = 7 -> "7" [] d = 8 -> "8" [] d = 9 -> "9"

RECURSIVE IntStr(_)
IntStr(n) == IF n < 10 THEN <<Digit(n)>> ELSE IntStr(n \div 10) \o <<Digit(n % 10)>>

\* sep.join(parts)
RECURSIVE Join(_, _)
Join(sep, parts) ==
    IF parts = <<>> THEN <<>>
    ELSE IF Len(parts) = 1 THEN parts[1]
    ELSE parts[1] \o sep \o Join(sep, Tail(parts))

\* Line 123: f"[Source {i}: {doc['title']}]\n{doc['text']}\n"
DocText(i, doc) ==
    <<"[","S","o","u","r","c","e"," ">> \o IntStr(i) \o <<":"," ">> \o doc.title
        \o <<"]","\n">> \o doc.text \o <<"\n">>

ContextHeader ==
    <<"R","e","l","e","v","a","n","t"," ","I","n","f","o","r","m","a","t","i","o","n",":","\n","\n">>

\* Lines 121-130 skipping a block that does not fit and going on.
RECURSIVE ContextParts_Skip(_, _, _, _)
ContextParts_Skip(docs, i, total_length, max_context_length) ==
    IF i > Len(docs) THEN <<>>
    ELSE LET doc_text == DocText(i, docs[i]) IN
         IF total_length + Len(doc_text) > max_context_length
         THEN ContextParts_Skip(docs, i + 1, total_length, max_context_length)
         ELSE <<doc_text>> \o ContextParts_Skip(docs, i + 1, total_length + Len(doc_text),
                                                max_context_length)

\* Lines 121-130: the blocks taken, from document i on.
RECURSIVE ContextParts(_, _, _, _)
ContextParts(docs, i, total_length, max_context_length) ==
    IF i > Len(docs) THEN <<>>
    ELSE LET doc_text == DocText(i, docs[i]) IN
         IF total_length + Len(doc_text) > max_context_length THEN <<>>
         ELSE <<doc_text>> \o ContextParts(docs, i + 1, total_length + Len(doc_text),
                                           max_context_length)

\* format_context_for_prompt
format_context_for_prompt(relevant_docs, max_context_length) ==
    IF relevant_docs = <<>> THEN <<>>
    ELSE LET context_parts == ContextParts(relevant_docs, 1, 0, max_context_length) IN
         IF context_parts = <<>> THEN <<>>
         ELSE ContextHeader \o Join(<<"\n">>, context_parts)

\* retrieve_and_format
retrieve_and_format(env, min_score, max_context_length) ==
    LET r == retrieve_relevant_context(env, min_score) IN
    [context |-> format_context_for_prompt(r.docs, max_context_length),
     num_sources |-> Len(r.docs),
     has_context |-> Len(r.docs) > 0,
     calls |-> r.calls]

-----------------------------------------------------------------------------
(* services/document.py: chunk_text on a text given character by character *)

IsTerminator(c) == c \in {".", "!", "?"}

\* The last index of the run of whitespace that holds index i.
RECURSIVE RunEnd(_, _)
RunEnd(s, i) == IF i < Len(s) /\ IsSpace(s[i + 1]) THEN RunEnd(s, i + 1) ELSE i

\* re.split(r'\n\s*\n', text) from index i on, the current piece starting at
\* start: a match is a newline, then whitespace up to the last newline of
\* the run.
RECURSIVE SplitParagraphs(_, _, _)
SplitParagraphs(s, i, start) ==
    IF i > Len(s) THEN <<SubSeq(s, start, Len(s))>>
    ELSE IF s[i] = "\n"
    THEN LET newlines == {k \in (i + 1)..RunEnd(s, i) : s[k] = "\n"} IN
         IF newlines # {}
         THEN LET j == CHOOSE k \in newlines : \A l \in newlines : l <= k IN
              <<SubSeq(s, start, i - 1)>> \o SplitParagraphs(s, j + 1, j + 1)
         ELSE SplitParagraphs(s, i + 1, start)
    ELSE SplitParagraphs(s, i + 1, start)

\* re.split(r'(?<=[.!?])\s+', paragraph): a match is a run of whitespace
\* right after a terminator.
RECURSIVE SplitSentences(_, _, _)
SplitSentences(s, i, start) ==
    IF i > Len(s) THEN <<SubSeq(s, start, Len(s))>>
    ELSE IF i > 1 /\ IsTerminator(s[i - 1]) /\ IsSpace(s[i])
    THEN <<SubSeq(s, start, i - 1)>>
            \o SplitSentences(s, RunEnd(s, i) + 1, RunEnd(s, i) + 1)
    ELSE SplitSentences(s, i + 1, start)

\* The sentence loop losing the chunk it closes.
AddSentence_DropsChunk(st, sentence, chunk_size) ==
    IF Len(st.current_chunk) + Len(sentence) + 1 <= chunk_size
    THEN [st EXCEPT !.current_chunk = IF @ # <<>> THEN @ \o <<" ">> \o sentence ELSE sentence]
    ELSE [chunks |-> st.chunks, current_chunk |-> sentence]

\* Lines 84-92: one sentence of an over-long paragraph.
AddSentence(st, sentence, chunk_size) ==
    IF Len(st.current_chunk) + Len(sentence) + 1 <= chunk_size
    THEN [st EXCEPT !.current_chunk = IF @ # <<>> THEN @ \o <<" ">> \o sentence ELSE sentence]
    ELSE [chunks |-> IF st.current_chunk # <<>> THEN Append(st.chunks, st.current_chunk)
                     ELSE st.chunks,
          current_chunk |-> sentence]

\* Lines 83-92: the loop over the sentences.
RECURSIVE AddSentences(_, _, _)
AddSentences(st, sentences, chunk_size) ==
    IF sentences = <<>> THEN st
    ELSE AddSentences(AddSentence(st, Head(sentences), chunk_size), Tail(sentences), chunk_size)

\* The paragraph step with the separator left out of its size test.
AddParagraph_NoSeparator(st, raw, chunk_size) ==
    LET paragraph == Strip(raw) IN
    IF paragraph = <<>> THEN st
    ELSE IF Len(st.current_chunk) + Len(paragraph) <= chunk_size
    THEN [st EXCEPT !.current_chunk =
             IF @ # <<>> THEN @ \o <<"\n", "\n">> \o paragraph ELSE paragraph]
    ELSE LET saved == IF st.current_chunk # <<>> THEN Append(st.chunks, st.current_chunk)
                      ELSE st.chunks
         IN IF Len(paragraph) <= chunk_size
            THEN [chunks |-> saved, current_chunk |-> paragraph]
            ELSE AddSentences([chunks |-> saved, current_chunk |-> <<>>],
                              SplitSentences(paragraph, 1, 1), chunk_size)

\* Lines 60-92: one paragraph.
AddParagraph(st, raw, chunk_size) ==
    LET paragraph == Strip(raw) IN
    IF paragraph = <<>> THEN st
    ELSE IF Len(st.current_chunk) + Len(paragraph) + 2 <= chunk_size
    THEN [st EXCEPT !.current_chunk =
             IF @ # <<>> THEN @ \o <<"\n", "\n">> \o paragraph ELSE paragraph]
    ELSE LET saved == IF st.current_chunk # <<>> THEN Append(st.chunks, st.current_chunk)
                      ELSE st.chunks
         IN IF Len(paragraph) <= chunk_size
            THEN [chunks |-> saved, current_chunk |-> paragraph]
            ELSE AddSentences([chunks |-> saved, current_chunk |-> <<>>],
                              SplitSentences(paragraph, 1, 1), chunk_size)

\* Lines 59-92: the loop over the paragraphs.
RECURSIVE AddParagraphs(_, _, _)
AddParagraphs(st, paragraphs, chunk_size) ==
    IF paragraphs = <<>> THEN st
    ELSE AddParagraphs(AddParagraph(st, Head(paragraphs), chunk_size), Tail(paragraphs),
                       chunk_size)

\* chunk_text: the texts of the chunks, in their order.  chunk_overlap is
\* kept by __init__ and read nowhere.
chunk_text(text, chunk_size, chunk_overlap) ==
    LET stripped == Strip(text) IN
    IF stripped = <<>> THEN <<>>
    ELSE LET st == AddParagraphs([chunks |-> <<>>, current_chunk |-> <<>>],
                                 SplitParagraphs(stripped, 1, 1), chunk_size)
         IN IF st.current_chunk # <<>> THEN Append(st.chunks, st.current_chunk) ELSE st.chunks

\* What ingest_document answers when it gives up, with the calls made so far.
IngestFailure(error, calls) ==
    [success |-> FALSE, error |-> error, chunks_created |-> 0, calls |-> calls,
     upserted |-> <<>>, upsert_returned |-> <<>>]

\* ingest_document going on with whatever embed_texts returned.
ingest_document_IgnoresEmpty(env, content) ==
    IF ~embedding_is_available(env.emb)
    THEN IngestFailure("Embedding service not available", <<>>)
    ELSE IF ~env.index THEN IngestFailure("Vector store not available", <<>>)
    ELSE LET chunks == chunk_text(content, env.chunk_size, env.chunk_overlap) IN
         IF chunks = <<>> THEN IngestFailure("No chunks created from content", <<>>)
         ELSE LET embeddings == embed_texts(env.emb, env.enc, [i \in 1..Len(chunks) |-> i])
                  vectors_data ==
                      [i \in 1..Len(embeddings) |->
                          [id |-> i - 1, values |-> embeddings[i],
                           metadata |-> [chunk_index |-> i - 1, total_chunks |-> Len(chunks),
                                         text |-> chunks[i]]]]
                  sent == upsert_vectors(env.index, env.upsert, vectors_data)
              IN [success |-> TRUE, error |-> "", chunks_created |-> Len(chunks),
                  calls |-> <<"embed_texts", "upsert_vectors">>,
                  upserted |-> sent.stored, upsert_returned |-> <<sent.ok>>]

\* ingest_document without the test of lines 164-168.
ingest_document_NoChunkTest(env, content) ==
    IF ~embedding_is_available(env.emb)
    THEN IngestFailure("Embedding service not available", <<>>)
    ELSE IF ~env.index THEN IngestFailure("Vector store not available", <<>>)
    ELSE LET chunks == chunk_text(content, env.chunk_size, env.chunk_overlap)
             embeddings == embed_texts(env.emb, env.enc, [i \in 1..Len(chunks) |-> i])
         IN IF embeddings = <<>> \/ Len(embeddings) # Len(chunks)
            THEN IngestFailure("Failed to generate embeddings", <<"embed_texts">>)
            ELSE LET vectors_data ==
                         [i \in 1..Len(chunks) |->
                             [id |-> i - 1, values |-> embeddings[i],
                              metadata |-> [chunk_index |-> i - 1,
                                            total_chunks |-> Len(chunks),
                                            text |-> chunks[i]]]]
                     sent == upsert_vectors(env.index, env.upsert, vectors_data)
                 IN [success |-> TRUE, error |-> "", chunks_created |-> Len(chunks),
                     calls |-> <<"embed_texts", "upsert_vectors">>,
                     upserted |-> sent.stored, upsert_returned |-> <<sent.ok>>]

\* ingest_document: its answer, the calls it made to the embedding model and
\* the index, the vectors the index took and what upsert_vectors returned.
\* The chunks are numbered from 0; the answer of upsert_vectors is not
\* looked at (lines 194-198).
ingest_document(env, content) ==
    IF ~embedding_is_available(env.emb)
    THEN IngestFailure("Embedding service not available", <<>>)
    ELSE IF ~env.index THEN IngestFailure("Vector store not available", <<>>)
    ELSE LET chunks == chunk_text(content, env.chunk_size, env.chunk_overlap) IN
         IF chunks = <<>> THEN IngestFailure("No chunks created from content", <<>>)
         ELSE LET embeddings == embed_texts(env.emb, env.enc, [i \in 1..Len(chunks) |-> i]) IN
              IF embeddings = <<>> \/ Len(embeddings) # Len(chunks)
              THEN IngestFailure("Failed to generate embeddings", <<"embed_texts">>)
              ELSE LET vectors_data ==
                           [i \in 1..Len(chunks) |->
                               [id |-> i - 1, values |-> embeddings[i],
                                metadata |-> [chunk_index |-> i - 1,
                                              total_chunks |-> Len(chunks),
                                              text |-> chunks[i]]]]
                       sent == upsert_vectors(env.index, env.upsert, vectors_data)
                   IN [success |-> TRUE, error |-> "", chunks_created |-> Len(chunks),
                       calls |-> <<"embed_texts", "upsert_vectors">>,
                       upserted |-> sent.stored, upsert_returned |-> <<sent.ok>>]

-----------------------------------------------------------------------------
(* services/agent_core.py *)

Tokens == {"C1", "C2"}

DeclineReply == "I'm sorry, but I can only answer questions related to vehicle services and appointments."
ModelAnswer == "answer"
\* AgentExecutor's reply when its loop stops at the cap.
StoppedReply == "Agent stopped due to iteration limit or time limit."

\* Lines 110-131: the scope pre-filter on the query text.
is_greeting(query) == AnyIn(greeting_keywords, Strip(LowerStr(Chars(query))))
has_automotive_keyword(query) == AnyIn(automotive_keywords, Strip(LowerStr(Chars(query))))

\* The pre-filter with its passage test inverted.
OffTopic_Inverted(num_sources, query) ==
    num_sources # 0 /\ ~has_automotive_keyword(query) /\ ~is_greeting(query)

OffTopic(num_sources, query) ==
    num_sources = 0 /\ ~has_automotive_keyword(query) /\ ~is_greeting(query)

\* The labels of two branches exchanged.
ToolLabel_Swapped(tool_name) ==
    LET n == LowerStr(Chars(tool_name)) IN
    IF Contains(<<"a","p","p","o","i","n","t","m","e","n","t">>, n) THEN "Appointment_Check"
    ELSE IF Contains(<<"w","o","r","k","_","l","o","g">>, n) THEN "Active_Services_Check"
    ELSE IF Contains(<<"a","c","t","i","v","e","_","s","e","r","v","i","c","e","s">>, n)
    THEN "Work_Log_Check"
    ELSE None

\* Lines 162-170: the label of one intermediate step, None when no branch matches.
ToolLabel(tool_name) ==
    LET n == LowerStr(Chars(tool_name)) IN
    IF Contains(<<"a","p","p","o","i","n","t","m","e","n","t">>, n) THEN "Appointment_Check"
    ELSE IF Contains(<<"a","c","t","i","v","e","_","s","e","r","v","i","c","e","s">>, n)
    THEN "Active_Services_Check"
    ELSE IF Contains(<<"w","o","r","k","_","l","o","g">>, n) THEN "Work_Log_Check"
    ELSE None

\* Lines 152-170: the first step with a label decides, None when there is none.
RECURSIVE Classify(_)
Classify(steps) ==
    IF steps = <<>> THEN None
    ELSE IF ToolLabel(Head(steps)) # None THEN ToolLabel(Head(steps))
    ELSE Classify(Tail(steps))

\* The token a tool's downstream call carries: the module-level runtime_token.
CallToken(global_token, request_token) == global_token

\* The executor's loop condition: iterations < max_iterations.
MaxIterations == 2

\* The loop condition off by one.
CanIterate_OffByOne(iterations) == iterations <= MaxIterations

CanIterate(iterations) == iterations < MaxIterations

-----------------------------------------------------------------------------
(* routes/chatAgent.py chat_with_agent and AIAgentService.invoke_agent,  *)
(* one step per stretch of code between two await points                  *)

Turns == {1, 2}
\* A request names no session, or an id that may or may not be in the store.
RequestSids == {""} \cup SessionIds

\* Slot t serves the client that holds credential TokenOf(t).
TokenOf(t) == IF t = 1 THEN "C1" ELSE "C2"

NoCall == [tool |-> "", kind |-> "", empty |-> FALSE, raised |-> FALSE, text |-> ""]

\* num_sources is <<>> until the retrieval step has run, then <<n>>; rag_up
\* likewise holds whether the retrieval service was available.  rag_context
\* is the text bound for the prompt.  trace lists, in their order, the calls
\* of the turn to the embedding model, the index, the model and the tools.
Idle ==
    [pc |-> "idle", token |-> "", query |-> "", req_sid |-> "", session_id |-> "",
     user_context |-> "", num_sources |-> <<>>, rag_up |-> <<>>, rag_context |-> <<>>,
     trace |-> <<>>,
     iters |-> 0, steps |-> <<>>, pending |-> "", last |-> NoCall, carried |-> {},
     status |-> 0, reply |-> "", tool_executed |-> None]

\* The locals of a handler that has returned are gone.
Returned200(r) == [r EXCEPT !.user_context = "", !.rag_context = <<>>, !.pending = "",
                            !.last = NoCall, !.carried = {}]

InitAgent ==
    /\ runtime_token = ""
    /\ turn = [t \in Turns |-> Idle]
    /\ requests = 0

\* Line 101, await self.ms_client.get_user_context(user_token).
\* get_user_context is the synchronous wrapper of microservice_client.py
\* lines 50-53: asyncio.run(...) called on the running event loop raises
\* RuntimeError.  The results of the helper it wraps, _async_get_user_context
\* (the guest context on an error answer, the profile otherwise), are kept
\* as further outcomes, so that the code after line 101 is explored too.
UserContextOutcomes == {"RuntimeError", "guest", "profile"}

\* The except branch answering like a scope decline.
Fail_AsDecline(t, r) ==
    [r EXCEPT !.pc = "done", !.status = 200, !.reply = DeclineReply,
              !.tool_executed = None, !.user_context = "", !.rag_context = <<>>,
              !.pending = "", !.carried = {}]

\* chat_with_agent lines 54-55: any exception becomes HTTP 500.
Fail(t, r) ==
    [r EXCEPT !.pc = "done", !.status = 500, !.reply = "Internal Agent Error",
              !.tool_executed = None, !.user_context = "", !.rag_context = <<>>,
              !.pending = "", !.carried = {}]

\* The two add_message calls in the other order.
StoreAfterReply_Swapped(store, sid, query, output, t) ==
    IF AddMessageOk(store, sid)
    THEN AddMessageStore(
             AddMessageStore(store, sid, MkMessage("assistant", output, t + 1), t + 1),
             sid, MkMessage("user", query, t + 2), t + 2)
    ELSE store

\* The store after chat_with_agent lines 42-44: two add_message calls,
\* each a no-op returning False on an unknown session.
StoreAfterReply(store, sid, query, output, t) ==
    IF AddMessageOk(store, sid)
    THEN AddMessageStore(
             AddMessageStore(store, sid, MkMessage("user", query, t + 1), t + 1),
             sid, MkMessage("assistant", output, t + 2), t + 2)
    ELSE store

\* invoke_agent has returned {output, tool_executed}: chat_with_agent lines
\* 42-50 run to the response without an await.
Reply(t, r, output, label) ==
    /\ conversations' = StoreAfterReply(conversations, r.session_id, r.query, output, now)
    /\ IF AddMessageOk(conversations, r.session_id)
       THEN /\ added' = [added EXCEPT ![r.session_id] =
                            @ \o <<MkMessage("user", r.query, now + 1),
                                   MkMessage("assistant", output, now + 2)>>]
            /\ now' = now + 2
       ELSE UNCHANGED <<added, now>>
    /\ turn' = [turn EXCEPT ![t] =
                  [Returned200(r) EXCEPT !.pc = "done", !.status = 200, !.reply = output,
                                         !.tool_executed = label]]

\* An id uuid4 has not handed out yet.
FreshSid(store) == CHOOSE s \in SessionIds : s \notin DOMAIN store

\* chat_with_agent lines 28-35 and invoke_agent up to its first await.
ChatStart(t, query, sid, o) ==
    /\ turn[t].pc \in {"idle", "done"}
    /\ sid = "" => \E s \in SessionIds : s \notin DOMAIN conversations
    /\ requests' = requests + 1
    /\ LET session_id == IF sid # "" THEN sid ELSE FreshSid(conversations)
           store == IF sid # "" THEN conversations
                    ELSE CreateSessionStore(conversations, session_id,
                                            "authenticated_user", now + 1)
           r == [Idle EXCEPT !.token = TokenOf(t), !.query = query,
                             !.req_sid = sid, !.session_id = session_id]
       IN /\ conversations' = store
          /\ now' = IF sid # "" THEN now ELSE now + 1
          /\ turn' = [turn EXCEPT ![t] =
                        IF o = "RuntimeError" THEN Fail(t, r)
                        ELSE [r EXCEPT !.pc = "ctx", !.user_context = o]]
    /\ UNCHANGED <<added, ret, runtime_token, legacyVars, call>>

\* Line 106, the default of rag_result.get("context", ...).
KnowledgeUnavailable ==
    <<"K","n","o","w","l","e","d","g","e"," ","b","a","s","e"," ","t","e","m","p","o",
      "r","a","r","i","l","y"," ","u","n","a","v","a","i","l","a","b","l","e",".">>

\* dict.get(key, default) on the dict retrieve_and_format returned.
RagGet(rag_result, key, default) ==
    IF key \in DOMAIN rag_result THEN rag_result[key] ELSE default

\* One entry of a turn's trace.
Ev(ev, tool) == [ev |-> ev, tool |-> tool]

\* The retrieval environments a turn can meet: the embedding model loaded or
\* not, the index up or down, the index query returning or raising (encode
\* raising gives the same empty retrieval and is explored in SpecRag), and no match or MaxSources matches of one score, below or above the
\* threshold, in its answer.
TurnRagEnv(loaded, enc, index, query, n, score) ==
    [emb |-> [loaded |-> loaded, actual_dimension |-> IF loaded THEN 2 ELSE 0,
              dimension |-> 2],
     enc |-> enc, index |-> index, query |-> query,
     matches |-> [i \in 1..n |-> [id |-> i, score |-> score,
                                  metadata |-> [title |-> <<"T">>, text |-> <<"x">>]]]]

TurnRagEnvs ==
    {TurnRagEnv(l, c, x, q, n, sc) :
        l \in BOOLEAN, c \in {"ok"}, x \in BOOLEAN, q \in QueryOutcomes,
        n \in {0, MaxSources}, sc \in {2, 4}}

\* invoke_agent lines 102-144: retrieval with the defaults of
\* retrieve_and_format, the scope pre-filter, the token written to the tools
\* module, then the await on the agent executor.
AfterUserContext(t, env) ==
    /\ turn[t].pc = "ctx"
    /\ LET rag_result == retrieve_and_format(env, default_min_score, default_max_context_length)
           n == RagGet(rag_result, "num_sources", 0)
           r == [turn[t] EXCEPT
                   !.num_sources = <<n>>,
                   !.rag_up = <<rag_is_available(env)>>,
                   !.rag_context = RagGet(rag_result, "context", KnowledgeUnavailable),
                   !.trace = @ \o [i \in 1..Len(rag_result.calls) |->
                                      Ev(rag_result.calls[i], "")]]
       IN
       IF OffTopic(n, r.query)
       THEN /\ Reply(t, r, DeclineReply, None)
            /\ UNCHANGED <<runtime_token>>
       ELSE /\ runtime_token' = r.token
            /\ turn' = [turn EXCEPT ![t] = [r EXCEPT !.pc = "model"]]
            /\ UNCHANGED <<conversations, added, now>>
    /\ UNCHANGED <<ret, requests, legacyVars, call>>

\* One model call of the executor's loop: a final answer, a tool request,
\* an unparsable answer (handle_parsing_errors: an "_Exception" step) or a
\* failed call.  A final answer ends the loop: lines 151-175, then the reply.
ModelInvoke(t, d) ==
    /\ turn[t].pc = "model"
    /\ CanIterate(turn[t].iters)
    /\ LET r == [turn[t] EXCEPT
                   !.iters = @ + 1,
                   !.trace = IF d \in all_tools
                             THEN @ \o <<Ev("model", ""), Ev("request", d)>>
                             ELSE Append(@, Ev("model", ""))]
       IN
       CASE d = "final" ->
              Reply(t, r, ModelAnswer, Classify(r.steps))
         [] d \in all_tools ->
              /\ turn' = [turn EXCEPT ![t] = [r EXCEPT !.pc = "tool", !.pending = d]]
              /\ UNCHANGED <<conversations, added, now>>
         [] d = "parse_error" ->
              /\ turn' = [turn EXCEPT ![t] = [r EXCEPT !.steps = Append(@, "_Exception")]]
              /\ UNCHANGED <<conversations, added, now>>
         [] d = "error" ->
              /\ turn' = [turn EXCEPT ![t] = Fail(t, r)]
              /\ UNCHANGED <<conversations, added, now>>
    /\ UNCHANGED <<ret, runtime_token, requests, legacyVars, call>>

\* The executor's loop has reached its cap: it stops with its fixed reply.
AgentStopped(t) ==
    /\ turn[t].pc = "model"
    /\ ~CanIterate(turn[t].iters)
    /\ Reply(t, turn[t], StoppedReply, Classify(turn[t].steps))
    /\ UNCHANGED <<ret, runtime_token, requests, legacyVars, call>>

\* The tool the model asked for runs: it reads runtime_token, makes its
\* downstream call with it and turns the answer into its result.  An
\* exception of the tool leaves the executor and invoke_agent.
ToolDispatch(t, data) ==
    /\ LET tool == turn[t].pending
           result == RunTool(tool, data)
           r == [turn[t] EXCEPT
                   !.carried = @ \cup {CallToken(runtime_token, turn[t].token)},
                   !.steps = Append(@, tool),
                   !.trace = Append(@, Ev("dispatch", tool)),
                   !.pending = "",
                   !.last = [tool |-> tool, kind |-> data.kind,
                             empty |-> data.items = <<>>,
                             raised |-> result.raised,
                             text |-> IF result.raised THEN result.value
                                      ELSE result.value.text]]
       IN turn' = [turn EXCEPT ![t] =
                     IF result.raised THEN Fail(t, r) ELSE [r EXCEPT !.pc = "model"]]
    /\ UNCHANGED <<storeVars, runtime_token, requests, legacyVars, call>>

\* One slot, every input: a turn on its own, request after request.
NextTurn ==
    \/ \E q \in Queries, sid \in RequestSids, o \in UserContextOutcomes :
          requests < MaxSoloRequests /\ ChatStart(1, q, sid, o)
    \/ \E env \in TurnRagEnvs : AfterUserContext(1, env)
    \/ \E d \in {"final", "parse_error", "error"} \cup all_tools : ModelInvoke(1, d)
    \/ AgentStopped(1)
    \/ /\ turn[1].pc = "tool"
       /\ \E data \in ToolResponses(turn[1].pending) : ToolDispatch(1, data)

\* Two slots on the event loop: every interleaving of their steps, on the
\* inputs that take a turn through the token write, a tool and the store.
ConcurrentQueries == {"q_oil"}
ConcurrentRagEnvs == {TurnRagEnv(TRUE, "ok", TRUE, "ok", MaxSources, 4)}
ConcurrentDecisions == {"final", ActiveServicesTool}
ConcurrentResponses == {ErrorResponse, [kind |-> "list", items |-> <<[status |-> "IN_PROGRESS"]>>]}

NextAgent ==
    \/ \E t \in Turns, q \in ConcurrentQueries, sid \in RequestSids,
          o \in UserContextOutcomes : requests < MaxRequests /\ ChatStart(t, q, sid, o)
    \/ \E t \in Turns, env \in ConcurrentRagEnvs : AfterUserContext(t, env)
    \/ \E t \in Turns, d \in ConcurrentDecisions : ModelInvoke(t, d)
    \/ \E t \in Turns : AgentStopped(t)
    \/ \E t \in Turns, data \in ConcurrentResponses :
          turn[t].pc = "tool" /\ ToolDispatch(t, data)

\* One slot serving request after request: a conversation that goes on over
\* several turns, some declined, some failing, some answered with a tool.
ChatQueries == {"q_president", "q_oil"}
ChatRagEnvs == {TurnRagEnv(TRUE, "ok", TRUE, "ok", n, 4) : n \in {0, MaxSources}}
ChatDecisions == {"final", "error", ActiveServicesTool}

NextChat ==
    \/ \E q \in ChatQueries, sid \in RequestSids, o \in UserContextOutcomes :
          requests < MaxChatRequests /\ ChatStart(1, q, sid, o)
    \/ \E env \in ChatRagEnvs : AfterUserContext(1, env)
    \/ \E d \in ChatDecisions : ModelInvoke(1, d)
    \/ AgentStopped(1)
    \/ \E data \in ConcurrentResponses : turn[1].pc = "tool" /\ ToolDispatch(1, data)

-----------------------------------------------------------------------------
(* The first entry point: main.py chat_endpoint, agent_core.py run_agent, *)
(* tools.py, service_clients.py, session_manager.py.  The handler calls    *)
(* only synchronous code, so one request runs at a time.                    *)

LIdle ==
    [pc |-> "idle", token |-> "", query |-> "", session_id |-> "",
     iters |-> 0, steps |-> <<>>, pending |-> "", carried |-> {},
     status |-> 0, reply |-> ""]

InitLegacy ==
    /\ tools_runtime_token = ""
    /\ core_runtime_token = ""
    /\ SESSION_STORE = << >>
    /\ lturn = LIdle

\* service_clients.py get_user_context: "ERROR" when the /me call fails.
LegacyUserContexts == {"ERROR", "user"}

\* tools.py check_appointment_slots_tool
legacy_check_appointment_slots_tool(result) ==
    IF ~HasGet(result) THEN Raised("AttributeError")
    ELSE IF result.kind = "error"
    THEN ToolText("Error: Could not check slots due to service error", <<>>)
    ELSE ToolText("No available slots found", <<>>)

\* service_clients.py client_get_active_services: services.get("error") on
\* each of its two answers; a dict yields no entries.
client_get_active_services(services, projects) ==
    IF ~HasGet(services) \/ ~HasGet(projects) THEN Raised("AttributeError")
    ELSE Returned(<<>>)

\* tools.py get_user_active_services_tool
legacy_get_user_active_services_tool(services, projects) ==
    LET active_items == client_get_active_services(services, projects) IN
    IF active_items.raised THEN active_items
    ELSE ToolText("The user currently has no active services or modification projects.", <<>>)

\* tools.py get_last_work_log_tool: client_get_time_logs hands the answer on.
legacy_get_last_work_log_tool(logs) ==
    IF logs.kind = "list" /\ logs.items # <<>>
    THEN ToolText("log", <<MostRecent(logs.items)>>)
    ELSE ToolText("No time logs found for service/project ID", <<>>)

LegacyRunTool(tool, data, data2) ==
    CASE tool = AppointmentTool -> legacy_check_appointment_slots_tool(data)
      [] tool = ActiveServicesTool -> legacy_get_user_active_services_tool(data, data2)
      [] tool = WorkLogTool -> legacy_get_last_work_log_tool(data)

\* session_manager.py add_message_to_session
add_message_to_session(store, sid, user_message, agent_response) ==
    LET history == IF sid \in DOMAIN store THEN store[sid] ELSE <<>>
        saved == history \o <<[role |-> "human", content |-> user_message],
                              [role |-> "ai", content |-> agent_response]>>
    IN [s \in DOMAIN store \cup {sid} |-> IF s = sid THEN saved ELSE store[s]]

LFail(r, code) == [r EXCEPT !.pc = "done", !.status = code, !.reply = "", !.pending = ""]

\* chat_endpoint lines 31-41 and run_agent lines 43-53 up to the executor.
\* "global runtime_token" in agent_core.py names agent_core's own binding of
\* the imported name: the assignment leaves tools.runtime_token as it was.
LegacyChatStart(token, query, sid, uc) ==
    /\ lturn.pc \in {"idle", "done"}
    /\ sid = "" => \E s \in SessionIds : s \notin DOMAIN SESSION_STORE
    /\ requests' = requests + 1
    /\ LET session_id == IF sid # "" THEN sid ELSE FreshSid(SESSION_STORE)
           r == [LIdle EXCEPT !.token = token, !.query = query, !.session_id = session_id]
       IN IF token = "" \/ uc = "ERROR"
          THEN /\ lturn' = LFail(r, 401)
               /\ UNCHANGED <<core_runtime_token>>
          ELSE /\ core_runtime_token' = token
               /\ lturn' = [r EXCEPT !.pc = "model"]
    /\ UNCHANGED <<tools_runtime_token, SESSION_STORE, storeVars, agentVars, call>>

\* chat_endpoint lines 52-55: the history is saved, the reply returned.
LegacyReply(r, output) ==
    /\ SESSION_STORE' = add_message_to_session(SESSION_STORE, r.session_id, r.query, output)
    /\ lturn' = [r EXCEPT !.pc = "done", !.status = 200, !.reply = output, !.pending = ""]

LegacyModelInvoke(d) ==
    /\ lturn.pc = "model"
    /\ CanIterate(lturn.iters)
    /\ LET r == [lturn EXCEPT !.iters = @ + 1] IN
       CASE d = "final" -> LegacyReply(r, ModelAnswer)
         [] d \in all_tools ->
              /\ lturn' = [r EXCEPT !.pc = "tool", !.pending = d]
              /\ UNCHANGED SESSION_STORE
         [] d = "error" ->
              /\ lturn' = LFail(r, 500)
              /\ UNCHANGED SESSION_STORE
    /\ UNCHANGED <<tools_runtime_token, core_runtime_token, requests, storeVars, agentVars, call>>

LegacyAgentStopped ==
    /\ lturn.pc = "model"
    /\ ~CanIterate(lturn.iters)
    /\ LegacyReply(lturn, StoppedReply)
    /\ UNCHANGED <<tools_runtime_token, core_runtime_token, requests, storeVars, agentVars, call>>

\* A tool of tools.py runs: its downstream calls carry tools.runtime_token.
LegacyToolDispatch(data, data2) ==
    /\ LET tool == lturn.pending
           result == LegacyRunTool(tool, data, data2)
           r == [lturn EXCEPT
                   !.carried = @ \cup {CallToken(tools_runtime_token, lturn.token)},
                   !.steps = Append(@, tool),
                   !.pending = ""]
       IN lturn' = IF result.raised THEN LFail(r, 500) ELSE [r EXCEPT !.pc = "model"]
    /\ UNCHANGED <<tools_runtime_token, core_runtime_token, SESSION_STORE, requests,
                   storeVars, agentVars, call>>

NextLegacy ==
    \/ \E tok \in Tokens \cup {""}, q \in Queries, sid \in RequestSids,
          uc \in LegacyUserContexts :
          requests < MaxLegacyRequests /\ LegacyChatStart(tok, q, sid, uc)
    \/ \E d \in {"final", "error"} \cup all_tools : LegacyModelInvoke(d)
    \/ LegacyAgentStopped
    \/ /\ lturn.pc = "tool"
       /\ \E data \in ToolResponses(lturn.pending) :
             \E data2 \in IF lturn.pending = ActiveServicesTool
                           THEN ToolResponses(lturn.pending) ELSE {data} :
                LegacyToolDispatch(data, data2)

-----------------------------------------------------------------------------
(* SpecStore: the store driven directly *)

InitStore ==
    /\ conversations = << >>
    /\ now = 0
    /\ added = [s \in SessionIds \cup {UnknownSid} |-> <<>>]
    /\ ret = [op |-> "init"]

create_session(sid, user_id) ==
    /\ now < MaxOps
    /\ sid \notin DOMAIN conversations
    /\ conversations' = CreateSessionStore(conversations, sid, user_id, now + 1)
    /\ now' = now + 1
    /\ ret' = [op |-> "create_session", sid |-> sid]
    /\ UNCHANGED <<added, agentVars, requests, legacyVars, call>>

add_message(sid, role, content) ==
    /\ now < MaxOps
    /\ LET r == AddMessageCall(conversations, sid, MkMessage(role, content, now + 1), now + 1) IN
       /\ conversations' = r.store
       /\ ret' = [op |-> "add_message", sid |-> sid, value |-> r.ok]
       /\ IF r.ok
          THEN /\ added' = [added EXCEPT ![sid] = Append(@, MkMessage(role, content, now + 1))]
               /\ now' = now + 1
          ELSE UNCHANGED <<added, now>>
    /\ UNCHANGED <<agentVars, requests, legacyVars, call>>

GetHistory(sid, limit) ==
    /\ ret' = [op |-> "get_history", sid |-> sid, limit |-> limit,
               value |-> get_history(conversations, sid, limit),
               n |-> Len(added[sid])]
    /\ UNCHANGED <<conversations, added, now, agentVars, requests, legacyVars, call>>

NextStore ==
    \/ \E sid \in StoreSessionIds, u \in {None, "anonymous"} : create_session(sid, u)
    \/ \E sid \in StoreSessionIds \cup {UnknownSid}, r \in Roles : add_message(sid, r, "m")
    \/ \E sid \in StoreSessionIds \cup {UnknownSid}, l \in {NoLimit} \cup {Limit(n) : n \in 0..MaxLimit} :
          GetHistory(sid, l)

NoCallYet == [fn |-> "none"]

Init == InitStore /\ InitAgent /\ InitLegacy /\ call = NoCallYet

SpecStore == Init /\ [][NextStore]_vars

SpecTurn == Init /\ [][NextTurn]_vars

SpecAgent == Init /\ [][NextAgent]_vars

SpecChat == Init /\ [][NextChat]_vars

SpecLegacy == Init /\ [][NextLegacy]_vars

-----------------------------------------------------------------------------
(* SpecRag: the retrieval, formatting and embedding functions, each called *)
(* on every input within the bounds                                        *)

\* Matches in one answer of the index (top_k at most).
MaxMatches == 3
\* Documents handed to format_context_for_prompt.
MaxDocs == 3
\* Largest max_context_length explored.
MaxContextLength == 60
\* Texts handed to embed_texts in one call.
MaxTexts == 2
\* Documents ingested in one run.
MaxIngests == 2
\* Records handed to upsert_vectors in one call.
MaxRecords == 201

\* Scores below, at and above the default threshold, and thresholds around them.
Scores == {2, 3, 4}
MinScores == {0, 2, 3, 4, 5}

\* The text stored with a vector: "x" repeated.
Xs(n) == [i \in 1..n |-> "x"]
Texts == {Xs(1), Xs(3), Xs(8)}
Metadata(text) == [title |-> <<"T">>, text |-> text]

\* The answers of the index: at most MaxMatches matches, ids 1, 2, ... in
\* rank order, scores never increasing.
ScoreLists ==
    UNION {{s \in [1..n -> Scores] : \A i \in 1..(n - 1) : s[i] >= s[i + 1]} : n \in 0..MaxMatches}
MatchesOf(s) == [i \in 1..Len(s) |-> [id |-> i, score |-> s[i], metadata |-> Metadata(Xs(i))]]
MatchLists == {MatchesOf(s) : s \in ScoreLists}

\* The embedding services retrieval is tried with: loaded, and not loaded.
RetrievalEmbeddings ==
    {[loaded |-> TRUE, actual_dimension |-> 2, dimension |-> 2],
     [loaded |-> FALSE, actual_dimension |-> 0, dimension |-> 2]}

RagEnvs ==
    {[emb |-> e, enc |-> c, index |-> x, query |-> q, matches |-> m] :
        e \in RetrievalEmbeddings, c \in EncodeOutcomes, x \in BOOLEAN,
        q \in QueryOutcomes, m \in MatchLists}

DocLists ==
    UNION {{[i \in 1..n |-> [text |-> t[i], score |-> 4, title |-> <<"T">>, doc_id |-> i]] :
               t \in [1..n -> Texts]} : n \in 0..MaxDocs}

SeedLists == UNION {[1..n -> {1, 2}] : n \in 0..MaxTexts}

RetrieveCall ==
    /\ call = NoCallYet
    /\ \E env \in RagEnvs, min_score \in MinScores :
          call' = [fn |-> "retrieve_relevant_context", env |-> env, min_score |-> min_score,
                   result |-> retrieve_relevant_context(env, min_score),
                   at_zero |-> retrieve_relevant_context(env, 0)]
    /\ UNCHANGED <<storeVars, agentVars, requests, legacyVars>>

FormatCall ==
    /\ call = NoCallYet
    /\ \E docs \in DocLists, max_context_length \in 0..MaxContextLength :
          call' = [fn |-> "format_context_for_prompt", docs |-> docs,
                   max_context_length |-> max_context_length,
                   result |-> format_context_for_prompt(docs, max_context_length)]
    /\ UNCHANGED <<storeVars, agentVars, requests, legacyVars>>

RetrieveAndFormatCall ==
    /\ call = NoCallYet
    /\ \E env \in RagEnvs, max_context_length \in 0..MaxContextLength :
          call' = [fn |-> "retrieve_and_format", env |-> env,
                   max_context_length |-> max_context_length,
                   result |-> retrieve_and_format(env, default_min_score, max_context_length)]
    /\ UNCHANGED <<storeVars, agentVars, requests, legacyVars>>

EmbedTextCall ==
    /\ call = NoCallYet
    /\ \E svc \in EmbeddingServices, enc \in EncodeOutcomes, seed \in {1, 2} :
          call' = [fn |-> "embed_text", svc |-> svc, enc |-> enc, seeds |-> <<seed>>,
                   result |-> <<embed_text(svc, enc, seed)>>]
    /\ UNCHANGED <<storeVars, agentVars, requests, legacyVars>>

EmbedTextsCall ==
    /\ call = NoCallYet
    /\ \E svc \in EmbeddingServices, enc \in EncodeOutcomes, seeds \in SeedLists :
          call' = [fn |-> "embed_texts", svc |-> svc, enc |-> enc, seeds |-> seeds,
                   result |-> embed_texts(svc, enc, seeds)]
    /\ UNCHANGED <<storeVars, agentVars, requests, legacyVars>>

\* The documents ingested: empty, blank, one paragraph, two paragraphs.
IngestContents ==
    {<<>>, <<" ">>, <<"a">>, <<"a", "\n", "\n", "a">>, <<"a", ".", " ", "a", ".">>}

IngestEnvs ==
    {[emb |-> e, enc |-> c, index |-> x, upsert |-> u, chunk_size |-> s, chunk_overlap |-> 0] :
        e \in RetrievalEmbeddings, c \in EncodeOutcomes, x \in BOOLEAN,
        u \in {NoUpsertFailure, 1}, s \in {1, 4}}

\* One document ingested, on its own or right after another one by the same
\* service (upload_knowledge.py, the ingestion routes).  run tells how the
\* documents before it in the run ended.
IngestCall ==
    /\ \/ call = NoCallYet
       \/ call.fn = "ingest_document" /\ Len(call.run) + 1 < MaxIngests
    /\ \E env \in IngestEnvs, content \in IngestContents :
          call' = [fn |-> "ingest_document", env |-> env, content |-> content,
                   result |-> ingest_document(env, content),
                   run |-> IF call = NoCallYet THEN <<>>
                           ELSE Append(call.run, [success |-> call.result.success,
                                                  blank |-> Strip(call.content) = <<>>])]
    /\ UNCHANGED <<storeVars, agentVars, requests, legacyVars>>

\* upsert_vectors called with n ids, vectors and metadata dicts.
UpsertCall ==
    /\ call = NoCallYet
    /\ \E n \in 0..MaxRecords, fail_at \in UpsertOutcomes :
          LET records == ZipRecords([i \in 1..n |-> i], [i \in 1..n |-> <<i>>],
                                    [i \in 1..n |-> [chunk_index |-> i - 1]])
          IN call' = [fn |-> "upsert_vectors", records |-> records, fail_at |-> fail_at,
                      result |-> upsert_vectors(TRUE, fail_at, records)]
    /\ UNCHANGED <<storeVars, agentVars, requests, legacyVars>>

\* The caller has the result; the next call can come.
CallReturn ==
    /\ call # NoCallYet
    /\ call' = NoCallYet
    /\ UNCHANGED <<storeVars, agentVars, requests, legacyVars>>

NextRag ==
    \/ CallReturn
    \/ RetrieveCall
    \/ FormatCall
    \/ RetrieveAndFormatCall
    \/ EmbedTextCall
    \/ EmbedTextsCall
    \/ IngestCall
    \/ UpsertCall

SpecRag == Init /\ [][NextRag]_vars


-----------------------------------------------------------------------------
(* SpecTools: get_last_work_log_tool of both tool modules on every answer *)
(* of the time-log service within the bounds                              *)

\* Logs in one answer of the time-log service.
MaxLogs == 3

\* A log has its creation time and the hours it reports; createdAt 0 is a
\* log without the key, which the sort key x.get('createdAt', '') puts
\* below every timestamp.
WorkLogs == {[createdAt |-> c, hours |-> h] : c \in 0..2, h \in 1..2}

WorkLogResponses ==
    {ErrorResponse} \cup
    {[kind |-> k, items |-> xs] : k \in {"dict", "list"}, xs \in SeqsUpTo(WorkLogs, MaxLogs)}

WorkLogCall ==
    /\ call = NoCallYet
    /\ \E data \in WorkLogResponses :
          call' = [fn |-> "get_last_work_log_tool", data |-> data,
                   result |-> get_last_work_log_tool(data),
                   legacy |-> legacy_get_last_work_log_tool(data)]
    /\ UNCHANGED <<storeVars, agentVars, requests, legacyVars>>

NextTools ==
    \/ CallReturn
    \/ WorkLogCall

SpecTools == Init /\ [][NextTools]_vars

-----------------------------------------------------------------------------
(* SpecChunk: chunk_text on every text within the bounds *)

\* Longest text, in characters.
MaxTextLen == 6
\* Largest chunk_size.
MaxChunkSize == 4

\* A letter, a sentence terminator, a space and a newline.
ChunkAlphabet == {"a", ".", " ", "\n"}
ChunkTexts == UNION {[1..n -> ChunkAlphabet] : n \in 0..MaxTextLen}
ChunkOverlaps == {0, 2}

ChunkCall ==
    /\ call = NoCallYet
    /\ \E text \in ChunkTexts, chunk_size \in 0..MaxChunkSize, chunk_overlap \in ChunkOverlaps :
          call' = [fn |-> "chunk_text", text |-> text, chunk_size |-> chunk_size,
                   chunk_overlap |-> chunk_overlap,
                   result |-> chunk_text(text, chunk_size, chunk_overlap)]
    /\ UNCHANGED <<storeVars, agentVars, requests, legacyVars>>

NextChunk ==
    \/ CallReturn
    \/ ChunkCall

SpecChunk == Init /\ [][NextChunk]_vars

-----------------------------------------------------------------------------
(* Properties *)

Range(xs) == {xs[i] : i \in 1..Len(xs)}
Count(m, xs) == Cardinality({i \in 1..Len(xs) : xs[i] = m})

C2_HistoryBounded ==
    \A s \in DOMAIN conversations :
        Len(conversations[s].messages) <= max_history_length

C2_Witness ==
    \E s \in DOMAIN conversations :
        /\ Len(added[s]) > max_history_length
        /\ Len(conversations[s].messages) = max_history_length

\* C3: after more than max_history_length accepted add_message calls on a
\* session, get_history(session_id, limit=None) is exactly the last
\* max_history_length messages added, oldest first, whatever their roles.
C3_HistoryIsMostRecent ==
    (ret.op = "get_history" /\ ret.limit = NoLimit /\ ret.n > max_history_length)
        => ret.value = SubSeq(added[ret.sid], ret.n - max_history_length + 1, ret.n)

C3_Witness ==
    /\ ret.op = "get_history"
    /\ ret.limit = NoLimit
    /\ ret.n > max_history_length
    /\ Len(ret.value) = max_history_length
    /\ {ret.value[i].role : i \in 1..Len(ret.value)} = Roles

\* C4: when retrieval reports zero passages and the query holds neither an
\* automotive nor a greeting keyword, the turn returns the fixed decline
\* reply with tool_executed = None, the model was never invoked and no tool
\* was dispatched in it.
C4_OffTopicDeclined ==
    \A t \in Turns :
        ( /\ turn[t].num_sources = <<0>>
          /\ ~has_automotive_keyword(turn[t].query)
          /\ ~is_greeting(turn[t].query) )
        => /\ turn[t].pc = "done"
           /\ turn[t].status = 200
           /\ turn[t].reply = DeclineReply
           /\ turn[t].tool_executed = None
           /\ turn[t].iters = 0
           /\ turn[t].steps = <<>>

C4_Witness ==
    \E t \in Turns :
        /\ turn[t].query = "q_president"
        /\ turn[t].num_sources = <<0>>
        /\ turn[t].pc = "done"
        /\ turn[t].reply = DeclineReply

\* C5: the model/tool loop of a turn runs at most a fixed number of
\* iterations; a turn whose model asked for a tool at every iteration up to
\* the cap still ends, with the executor's fixed reply and not an error.
C5_LoopCapped ==
    \A t \in Turns :
        /\ turn[t].iters <= MaxIterations
        /\ Len(turn[t].steps) <= MaxIterations
        /\ (turn[t].pc = "done" /\ turn[t].status = 200
              /\ Len(turn[t].steps) = MaxIterations)
              => turn[t].reply = StoppedReply

C5_Witness ==
    \E t \in Turns :
        /\ turn[t].pc = "done"
        /\ turn[t].status = 200
        /\ turn[t].reply = StoppedReply
        /\ Len(turn[t].steps) = MaxIterations
        /\ \A i \in 1..Len(turn[t].steps) : turn[t].steps[i] \in all_tools

\* What each tool returns for a successful answer that holds nothing.
EmptyAnswer(tool) ==
    IF tool = ActiveServicesTool THEN [kind |-> "list", items |-> <<>>]
    ELSE [kind |-> "dict", items |-> <<>>]

\* C6: when a tool's downstream call fails, the tool's result is an
\* error-describing string, distinguishable from what the tool returns for a
\* successful but empty answer.
C6_FailureIsErrorString ==
    \A t \in Turns :
        turn[t].last.kind = "error"
        => /\ ~turn[t].last.raised
           /\ turn[t].last.text # RunTool(turn[t].last.tool, EmptyAnswer(turn[t].last.tool)).value.text

\* C7: no run of a tool raises into the orchestration loop: for an error
\* value, a JSON object and a JSON list alike the tool returns a string.
C7_ToolsNeverRaise ==
    \A t \in Turns : ~turn[t].last.raised

\* C8: in every turn, also one with no concurrent turn, each downstream call
\* made by a tool carries exactly the credential of that turn's request, for
\* run_agent as for invoke_agent.
C8_CallsCarryRequestCredential ==
    /\ lturn.carried \subseteq {lturn.token}
    /\ \A t \in Turns : turn[t].carried \subseteq {turn[t].token}

\* The label the three tool names stand for.
LabelOf(name) ==
    CASE name = AppointmentTool -> "Appointment_Check"
      [] name = ActiveServicesTool -> "Active_Services_Check"
      [] name = WorkLogTool -> "Work_Log_Check"

Recognised(steps) == {i \in 1..Len(steps) : steps[i] \in all_tools}
FirstRecognised(steps) == CHOOSE i \in Recognised(steps) : \A j \in Recognised(steps) : i <= j

C10_NoLostUpdate ==
    \A s \in DOMAIN conversations :
        Len(added[s]) <= max_history_length
        => /\ Len(conversations[s].messages) = Len(added[s])
           /\ \A m \in Range(added[s]) : Count(m, conversations[s].messages) = 1

\* Turn 1 created the session and is still in flight; turn 2, on the same
\* session, has replied and written to it.
C10_Witness ==
    /\ turn[1].req_sid = ""
    /\ turn[1].pc = "tool"
    /\ turn[2].pc = "done"
    /\ turn[2].status = 200
    /\ turn[2].session_id = turn[1].session_id
    /\ Len(conversations[turn[1].session_id].messages) = 2

\* C11: add_message on a session id that is not in the store returns False
\* and leaves the whole store as it was: no session appears and no field of
\* any session changes.
C11_UnknownSessionRejected ==
    [][ (ret'.op = "add_message" /\ ret'.sid \notin DOMAIN conversations)
        => /\ ret'.value = FALSE
           /\ conversations' = conversations
           /\ added' = added ]_vars

C11_Witness ==
    /\ ret.op = "add_message"
    /\ ret.sid = UnknownSid
    /\ ret.value = FALSE
    /\ \E s \in DOMAIN conversations : Len(conversations[s].messages) > 0

\* C12: for a known session with history h, get_history with a limit n >= 0
\* returns the last min(n, Len(h)) messages of h, oldest first; with no limit
\* it returns h; for an unknown session id it returns the empty sequence.
C12_HistoryLimit ==
    ret.op = "get_history"
    => IF ret.sid \notin DOMAIN conversations THEN ret.value = <<>>
       ELSE LET h == conversations[ret.sid].messages IN
            IF ret.limit = NoLimit THEN ret.value = h
            ELSE LET k == Min2(ret.limit[1], Len(h)) IN
                 ret.value = SubSeq(h, Len(h) - k + 1, Len(h))

\* The positions of xs whose element passes the threshold x, as a sequence
\* of the elements in their order.
RECURSIVE AtLeast(_, _)
AtLeast(xs, x) ==
    IF xs = <<>> THEN <<>>
    ELSE IF Head(xs).score >= x THEN <<Head(xs)>> \o AtLeast(Tail(xs), x)
    ELSE AtLeast(Tail(xs), x)

\* C17: retrieve_relevant_context returns exactly the matches of the index
\* query with score >= min_score, in the order the index returned them; so
\* its result for min_score = X is its result for min_score = 0 filtered to
\* score >= X, order kept.
C17_RetrievalThreshold ==
    call.fn = "retrieve_relevant_context"
    => LET docs == call.result.docs
           asked == "query_similar" \in Range(call.result.calls)
           answer == IF call.env.query = "ok" THEN call.env.matches ELSE <<>>
           kept == AtLeast(answer, call.min_score)
       IN /\ asked => /\ Len(docs) = Len(kept)
                      /\ \A i \in 1..Len(docs) :
                            /\ docs[i].doc_id = kept[i].id
                            /\ docs[i].score = kept[i].score
                            /\ docs[i].text = kept[i].metadata.text
          /\ docs = AtLeast(call.at_zero.docs, call.min_score)

\* An answer with scores below, at and above the threshold, cut at it.
C17_Witness ==
    /\ call.fn = "retrieve_relevant_context"
    /\ call.min_score = default_min_score
    /\ Len(call.env.matches) = 3
    /\ call.env.matches[1].score = 4
    /\ call.env.matches[2].score = 3
    /\ call.env.matches[3].score = 2
    /\ Len(call.result.docs) = 2

\* The lengths of the first k blocks, added up.
RECURSIVE BlocksLen(_, _)
BlocksLen(docs, k) == IF k = 0 THEN 0 ELSE BlocksLen(docs, k - 1) + Len(DocText(k, docs[k]))

\* C18: format_context_for_prompt takes a prefix of the passages in ranking
\* order: whole blocks while the sum of their lengths stays within
\* max_context_length, nothing after the first block that would exceed it,
\* no partial block, and the empty string when the first block does not fit.
C18_ContextIsWholePrefix ==
    call.fn = "format_context_for_prompt"
    => LET docs == call.docs
           fits == {k \in 0..Len(docs) :
                       \A j \in 1..k : BlocksLen(docs, j) <= call.max_context_length}
           n == CHOOSE k \in fits : \A j \in fits : j <= k
       IN IF n = 0 THEN call.result = <<>>
          ELSE call.result =
                 ContextHeader \o Join(<<"\n">>, [i \in 1..n |-> DocText(i, docs[i])])

\* The first block fits, the second does not, the third alone would.
C18_Witness ==
    /\ call.fn = "format_context_for_prompt"
    /\ Len(call.docs) = 3
    /\ call.docs[1].text = Xs(1)
    /\ call.docs[2].text = Xs(8)
    /\ call.docs[3].text = Xs(1)
    /\ call.max_context_length = 35
    /\ call.result = ContextHeader \o DocText(1, call.docs[1])

\* v is the native vector of the text, padded or cut to the target dimension.
Adjusted(svc, seed, v) ==
    /\ Len(v) = svc.dimension
    /\ \A i \in 1..svc.dimension :
          v[i] = IF i <= svc.actual_dimension THEN Encode(svc.actual_dimension, seed)[i] ELSE 0

\* C19: every vector embed_text returns and every vector in the result of
\* embed_texts has the target dimension, whatever the native dimension: a
\* shorter native vector is right-padded with zeros, a longer one cut to its
\* first values.
C19_TargetDimension ==
    call.fn \in {"embed_text", "embed_texts"}
    => IF call.svc.loaded /\ call.enc = "ok"
       THEN /\ Len(call.result) = Len(call.seeds)
            /\ \A i \in 1..Len(call.result) : Adjusted(call.svc, call.seeds[i], call.result[i])
       ELSE \A i \in 1..Len(call.result) : call.result[i] = <<>>

\* Two texts embedded by a model of native dimension 1 for the target 3.
C19_Witness ==
    /\ call.fn = "embed_texts"
    /\ call.svc.actual_dimension = 1
    /\ call.svc.dimension = 3
    /\ Len(call.result) = 2
    /\ call.result[1] = <<11, 0, 0>>

-----------------------------------------------------------------------------
(* Chunking *)

\* The paragraphs chunk_text sees: the pieces of the stripped text, each
\* stripped, the empty ones left out.
RECURSIVE NonEmptyStripped(_)
NonEmptyStripped(ps) ==
    IF ps = <<>> THEN <<>>
    ELSE (IF Strip(Head(ps)) = <<>> THEN <<>> ELSE <<Strip(Head(ps))>>)
            \o NonEmptyStripped(Tail(ps))

ParagraphsOf(text) ==
    IF Strip(text) = <<>> THEN <<>>
    ELSE NonEmptyStripped(SplitParagraphs(Strip(text), 1, 1))

\* The sentence units of the paragraphs longer than chunk_size.
LongSentenceUnits(text, chunk_size) ==
    UNION {Range(SplitSentences(ParagraphsOf(text)[i], 1, 1)) :
              i \in {k \in 1..Len(ParagraphsOf(text)) :
                        Len(ParagraphsOf(text)[k]) > chunk_size}}

RECURSIVE UnitsOf(_, _)
UnitsOf(paragraphs, chunk_size) ==
    IF paragraphs = <<>> THEN <<>>
    ELSE (IF Len(Head(paragraphs)) <= chunk_size THEN <<Head(paragraphs)>>
          ELSE SplitSentences(Head(paragraphs), 1, 1))
            \o UnitsOf(Tail(paragraphs), chunk_size)

\* chunk is the units us, in order, with one separator between neighbours and
\* nothing else.
RECURSIVE IsJoinOf(_, _)
IsJoinOf(chunk, us) ==
    LET u == Head(us) IN
    /\ Len(chunk) >= Len(u)
    /\ SubSeq(chunk, 1, Len(u)) = u
    /\ IF Len(us) = 1 THEN Len(chunk) = Len(u)
       ELSE \E sep \in {<<" ">>, <<"\n", "\n">>} :
              /\ Len(chunk) >= Len(u) + Len(sep)
              /\ SubSeq(chunk, Len(u) + 1, Len(u) + Len(sep)) = sep
              /\ IsJoinOf(SubSeq(chunk, Len(u) + Len(sep) + 1, Len(chunk)), Tail(us))

\* The chunks cut the unit sequence into consecutive non-empty groups, each
\* chunk being the join of its group.
RECURSIVE Partitions(_, _)
Partitions(chunks, units) ==
    IF chunks = <<>> THEN units = <<>>
    ELSE \E k \in 1..Len(units) :
            /\ IsJoinOf(Head(chunks), SubSeq(units, 1, k))
            /\ Partitions(Tail(chunks), SubSeq(units, k + 1, Len(units)))

-----------------------------------------------------------------------------
(* An embedding model that did not load *)

\* The embedding call of this environment comes back empty: the model did
\* not load, or encode raised.
EmbeddingEmpty(emb, enc) == ~emb.loaded \/ enc = "raise"

\* C20: when the embedding model failed to load, is_available is False and
\* embed_text and embed_texts return an empty result; a caller that gets an
\* empty embedding gives up: retrieve_relevant_context returns no passage
\* and never queries the index, ingest_document answers success = False and
\* never calls upsert_vectors, so nothing reaches the index.
C20_EmptyEmbeddingIsFailure ==
    /\ call.fn \in {"embed_text", "embed_texts"} /\ ~call.svc.loaded =>
          /\ ~embedding_is_available(call.svc)
          /\ \A i \in 1..Len(call.result) : call.result[i] = <<>>
          /\ call.fn = "embed_texts" => call.result = <<>>
    /\ call.fn = "retrieve_relevant_context" /\ EmbeddingEmpty(call.env.emb, call.env.enc) =>
          /\ call.result.docs = <<>>
          /\ \A i \in 1..Len(call.result.calls) : call.result.calls[i] # "query_similar"
    /\ call.fn = "ingest_document" /\ EmbeddingEmpty(call.env.emb, call.env.enc) =>
          /\ ~call.result.success
          /\ call.result.upserted = <<>>
          /\ \A i \in 1..Len(call.result.calls) : call.result.calls[i] # "upsert_vectors"

\* A document with text in it, ingested while the index is up and the
\* embedding model did not load.
C20_Witness ==
    /\ call.fn = "ingest_document"
    /\ ~call.env.emb.loaded
    /\ call.env.index
    /\ call.env.upsert = NoUpsertFailure
    /\ chunk_text(call.content, call.env.chunk_size, call.env.chunk_overlap) # <<>>
    /\ ~call.result.success

-----------------------------------------------------------------------------
(* The order of the steps of a turn *)

\* The calls of one turn are in order: the index is queried only after the
\* query was embedded, the model is invoked only after every retrieval call,
\* and a tool is dispatched only after the model asked for that tool.
TraceOrdered(tr) ==
    /\ \A i \in 1..Len(tr) :
          tr[i].ev = "query_similar" =>
              /\ \E j \in 1..(i - 1) : tr[j].ev = "embed_text"
              /\ \A j \in (i + 1)..Len(tr) : tr[j].ev # "embed_text"
    /\ \A i \in 1..Len(tr) :
          tr[i].ev = "model" =>
              \A j \in (i + 1)..Len(tr) : tr[j].ev \notin {"embed_text", "query_similar"}
    /\ \A i \in 1..Len(tr) :
          tr[i].ev = "dispatch" =>
              \E j \in 1..(i - 1) : tr[j].ev = "request" /\ tr[j].tool = tr[i].tool

\* C13: in every turn, however the turns of different requests interleave,
\* the query is embedded before the index is queried, the index is queried
\* before the model is invoked, and a tool is dispatched only after the model
\* requested that tool in the same turn.
C13_StepsInOrder == \A t \in Turns : TraceOrdered(turn[t].trace)

\* Two turns in flight at once, each past its retrieval, one past a tool
\* and the other about to run one.
C13_Witness ==
    /\ turn[1].pc = "model"
    /\ \E i \in 1..Len(turn[1].trace) : turn[1].trace[i].ev = "dispatch"
    /\ turn[2].pc = "tool"
    /\ \A t \in Turns : \E i \in 1..Len(turn[t].trace) : turn[t].trace[i].ev = "query_similar"

-----------------------------------------------------------------------------
(* Retrieval unavailable *)

-----------------------------------------------------------------------------
(* Ingestion *)

\* An environment in which nothing fails.
IngestWorks(env) ==
    /\ env.emb.loaded /\ env.enc = "ok" /\ env.index /\ env.upsert = NoUpsertFailure

\* C21: ingest_document on empty or whitespace-only content makes no chunk
\* and answers success = False with an error message, without a call to the
\* embedding model or to upsert_vectors; and the document that follows a
\* failed blank one, in an environment where nothing fails, is ingested
\* whole.
C21_BlankContentFailsAlone ==
    call.fn = "ingest_document" =>
        /\ Strip(call.content) = <<>> =>
              /\ chunk_text(call.content, call.env.chunk_size, call.env.chunk_overlap) = <<>>
              /\ ~call.result.success
              /\ call.result.error # ""
              /\ call.result.calls = <<>>
              /\ call.result.upserted = <<>>
        /\ ( /\ call.run # <<>>
             /\ call.run[Len(call.run)].blank
             /\ ~call.run[Len(call.run)].success
             /\ IngestWorks(call.env)
             /\ Strip(call.content) # <<>> ) =>
              /\ call.result.success
              /\ Len(call.result.upserted)
                    = Len(chunk_text(call.content, call.env.chunk_size, call.env.chunk_overlap))
              /\ Len(call.result.upserted) >= 1

\* A whitespace-only document failed at the chunk test, the services being
\* up, and the document after it went in.
C21_Witness ==
    /\ call.fn = "ingest_document"
    /\ call.run = <<[success |-> FALSE, blank |-> TRUE]>>
    /\ call.result.success
    /\ Len(call.result.upserted) = 2

-----------------------------------------------------------------------------
(* Batches of upsert_vectors *)

\* C23: upsert_vectors hands the records to index.upsert in batches of at
\* most 100; when no call fails the batches, one after the other, are the
\* input records in their order, each record once.
C23_BatchesOfAtMost100 ==
    call.fn = "upsert_vectors" =>
        /\ \A i \in 1..Len(call.result.sent) : Len(call.result.sent[i]) <= 100
        /\ call.result.ok => Flatten(call.result.sent) = call.records

\* More than two full batches, none failing.
C23_Witness ==
    /\ call.fn = "upsert_vectors"
    /\ call.result.ok
    /\ Len(call.result.sent) = 3
    /\ Len(call.records) = 201

\* C26: ingest_document answers success = True only if upsert_vectors
\* stored every chunk of the document.
C26_SuccessMeansUpserted ==
    call.fn = "ingest_document" /\ call.result.success =>
        /\ call.result.upsert_returned = <<TRUE>>
        /\ Len(call.result.upserted) = call.result.chunks_created

-----------------------------------------------------------------------------
(* The most recent work log *)

\* The tool answered with one log of the list, none of the others newer.
SerializesNewest(result, logs) ==
    /\ ~result.raised
    /\ result.value.text = "log"
    /\ Len(result.value.data) = 1
    /\ \E i \in 1..Len(logs) : logs[i] = result.value.data[1]
    /\ \A i \in 1..Len(logs) : logs[i].createdAt <= result.value.data[1].createdAt

\* C22: get_last_work_log_tool, of services/agent_tools.py and of tools.py,
\* given a non-empty list of logs by its client, serializes a log of the
\* list whose createdAt no other log of the list exceeds.
C22_NewestLogSerialized ==
    call.fn = "get_last_work_log_tool" =>
        /\ LET logs == get_time_logs_for_service(call.data) IN
           ~logs.raised /\ logs.value # <<>> => SerializesNewest(call.result, logs.value)
        /\ call.data.kind = "list" /\ call.data.items # <<>> =>
              SerializesNewest(call.legacy, call.data.items)

\* Three logs, the newest neither first nor last, handed to both tools.
C22_Witness ==
    /\ call.fn = "get_last_work_log_tool"
    /\ Len(call.data.items) = 3
    /\ call.data.items[2].createdAt > call.data.items[1].createdAt
    /\ call.data.items[2].createdAt > call.data.items[3].createdAt
    /\ \/ call.data.kind = "dict" /\ call.result.value.data = <<call.data.items[2]>>
       \/ call.data.kind = "list" /\ call.legacy.value.data = <<call.data.items[2]>>

-----------------------------------------------------------------------------
(* Errors at the request boundary *)

\* The step leaves the messages of every session as they were; a session it
\* opens has none.
HistoriesKept ==
    \A s \in DOMAIN conversations' :
        IF s \in DOMAIN conversations
        THEN conversations'[s].messages = conversations[s].messages
        ELSE conversations'[s].messages = <<>>

\* C24: a chat turn in which the agent raises ends, whatever it did before,
\* with HTTP 500 and the internal-error text, never with the scope-decline
\* reply, and no step of it changes the message history of a session; a
\* scope decline is a normal reply, HTTP 200, given only by the pre-filter
\* to an off-topic query, before the model or a tool ran.
C24_ErrorIsNotDecline ==
    [][ \A t \in Turns :
          turn'[t] # turn[t] =>
              /\ turn'[t].pc = "done" => turn'[t].status \in {200, 500}
              /\ turn'[t].status = 500 =>
                    /\ turn'[t].reply = "Internal Agent Error"
                    /\ turn'[t].reply # DeclineReply
              /\ turn'[t].status # 200 => HistoriesKept
              /\ turn'[t].last.raised => turn'[t].status = 500
              /\ turn'[t].reply = DeclineReply =>
                    /\ turn'[t].status = 200
                    /\ turn'[t].iters = 0
                    /\ turn'[t].num_sources = <<0>>
                    /\ OffTopic(0, turn'[t].query) ]_vars

\* A turn on a session that holds an earlier declined exchange has failed
\* after its tool ran.
C24_Witness ==
    /\ turn[1].pc = "done"
    /\ turn[1].status = 500
    /\ turn[1].steps # <<>>
    /\ turn[1].session_id \in DOMAIN conversations
    /\ Len(conversations[turn[1].session_id].messages) = 2
    /\ conversations[turn[1].session_id].messages[2].content = DeclineReply

-----------------------------------------------------------------------------
(* The exchange of a turn in the history *)

C27_UserContextNeverAborts ==
    \A t \in Turns :
        turn[t].pc = "done" /\ turn[t].status = 500 => turn[t].num_sources # <<>>

-----------------------------------------------------------------------------
(* The size and the sources of the context *)

\* C28: the string format_context_for_prompt returns has at most
\* max_context_length characters.
C28_ContextWithinLimit ==
    call.fn = "format_context_for_prompt" => Len(call.result) <= call.max_context_length

\* C29: when retrieve_and_format reports has_context, the context is not
\* empty and holds the block of every passage that num_sources counts, the
\* top-ranked one first.
C29_SourcesAreInContext ==
    call.fn = "retrieve_and_format" /\ call.result.has_context =>
        LET docs == retrieve_relevant_context(call.env, default_min_score).docs IN
        /\ call.result.num_sources >= 1
        /\ call.result.context # <<>>
        /\ call.result.context =
              ContextHeader \o Join(<<"\n">>, [i \in 1..call.result.num_sources |->
                                                  DocText(i, docs[i])])

-----------------------------------------------------------------------------
(* The exchange of a turn under interleaving *)

\* C30: however concurrent turns on one session interleave, the user
\* message a turn records is immediately followed in the history by the
\* assistant message of the same turn, written right after it, and an
\* assistant message that has a message before it follows its own user
\* message: no message of another turn stands between the two.
C30_ExchangeAdjacent ==
    \A s \in DOMAIN conversations :
        LET h == conversations[s].messages IN
        \A i \in 1..Len(h) :
            /\ h[i].role = "user" =>
                  /\ i < Len(h)
                  /\ h[i + 1].role = "assistant"
                  /\ h[i + 1].timestamp = h[i].timestamp + 1
            /\ h[i].role = "assistant" /\ i > 1 =>
                  /\ h[i - 1].role = "user"
                  /\ h[i - 1].timestamp + 1 = h[i].timestamp

\* Turn 2 opened the session and is still waiting for the model; turn 1,
\* started after it on the same session, has already recorded its exchange
\* after running a tool.
C30_Witness ==
    /\ turn[2].req_sid = ""
    /\ turn[2].pc = "model"
    /\ turn[1].pc = "done"
    /\ turn[1].status = 200
    /\ turn[1].steps # <<>>
    /\ turn[1].session_id = turn[2].session_id
    /\ Len(conversations[turn[2].session_id].messages) = 2

=============================================================================
